---- MODULE Spec2Model ----
(***************************************************************************)
(* Model of the project-orchestration layer of next-swc:                   *)
(*   next-api/src/project.rs            (Project and its accessors)        *)
(*   next-core/src/next_dynamic/dynamic_module.rs (NextDynamicEntryModule) *)
(*                                                                         *)
(* Four specifications share the module, one per component:                *)
(*   SpecEntry   Project::entrypoints, the two-source route merge          *)
(*   SpecPath    Project::project_path, the project-relative path          *)
(*   SpecProject Project::new, the overlay filesystems, layered contexts   *)
(*   SpecDyn     NextDynamicEntryModule                                    *)
(* Each specification drives its own variables and leaves the others at    *)
(* their idle values.                                                      *)
(***************************************************************************)
EXTENDS Integers, Sequences, FiniteSets, TLC

VARIABLES
    \* ---- Project::entrypoints
    app_routes,      \* Option<IndexMap>: None, or AppProject::routes() in enumeration order
    pages_routes,    \* IndexMap: PagesProject::routes() in enumeration order
    entrypoints_out, \* None before the call, then the Result the call returned
    \* ---- Project::project_path
    platform_sep,    \* std::path::MAIN_SEPARATOR of the build target
    paths,           \* [root_path, project_path] of the Project
    project_path_out,\* None before the call, then the outcome of project_path
    \* ---- Project::new, filesystems, chunking contexts
    project,         \* None, or the Project cell Project::new returned
    new_out,         \* None, or the Result of the last Project::new
    watching,        \* per overlay: number of start_watching calls issued on it
    cells,           \* per filesystem accessor: None, or its memoized Result
    evals,           \* per accessor: number of times its body has been evaluated
    last_call,       \* None, or the record of the accessor evaluated last
    \* ---- NextDynamicEntryModule
    markers,         \* the marker modules created so far
    dyn_calls        \* log of method calls on markers, in order

entry_vars   == <<app_routes, pages_routes, entrypoints_out>>
path_vars    == <<platform_sep, paths, project_path_out>>
project_vars == <<project, new_out, watching, cells, evals, last_call>>
dyn_vars     == <<markers, dyn_calls>>
vars == <<entry_vars, path_vars, project_vars, dyn_vars>>

\* Option<T>
None    == [some |-> FALSE]
Some(v) == [some |-> TRUE, value |-> v]

Ok(v)  == [ok |-> TRUE, value |-> v]
Err(e) == [ok |-> FALSE, error |-> e]

(***************************************************************************)
(* Bounds of the model.                                                    *)
(***************************************************************************)
NumPaths  == 3   \* distinct pathnames the two route sources may register
MaxRoutes == 2   \* longest route map a source yields
MaxRootLen    == 2   \* longest root_path, in characters
MaxProjectLen == 4   \* longest project_path, in characters
MaxEvals      == 4   \* accessor evaluations after which the engine asks for no more
NumModules    == 1   \* module identities a marker may wrap
NumContexts   == 2   \* client chunking contexts
MaxDynCalls   == 3   \* method calls on markers that are logged

(***************************************************************************)
(* Project::entrypoints                                                    *)
(***************************************************************************)
Pathnames == 1..NumPaths

\* crate::route::Route: the concrete endpoint variants each source yields,
\* and the Conflict marker the merge writes.
AppRouteKinds   == {"AppPage", "AppRoute"}
PagesRouteKinds == {"Page", "PageApi"}
Conflict        == "Conflict"

\* An IndexMap is a sequence of <<key, value>> pairs with pairwise distinct
\* keys; the sequence order is the map's insertion (= iteration) order.
Keys(m) == {m[i][1] : i \in 1..Len(m)}

IsIndexMap(m) == \A i, j \in 1..Len(m) : m[i][1] = m[j][1] => i = j

IndexMaps(values) ==
    {m \in UNION {[1..n -> Pathnames \X values] : n \in 0..MaxRoutes} : IsIndexMap(m)}

\* IndexMap::get_index_of: the position of key k, 0 when k is vacant.
IndexOf(m, k) ==
    IF k \in Keys(m) THEN CHOOSE i \in 1..Len(m) : m[i][1] = k ELSE 0

\* IndexMap::get
Get(m, k) == m[IndexOf(m, k)][2]

\* IndexMap::insert: replaces the value in place when the key is occupied,
\* appends the pair otherwise.
Insert(m, k, v) ==
    IF IndexOf(m, k) # 0
    THEN [m EXCEPT ![IndexOf(m, k)] = <<k, v>>]
    ELSE Append(m, <<k, v>>)

\* IndexMap::extend(iter): inserts the pairs of iter in iteration order.
RECURSIVE Extend(_, _)
Extend(m, iter) ==
    IF iter = <<>> THEN m
    ELSE Extend(Insert(m, Head(iter)[1], Head(iter)[2]), Tail(iter))

\* A variant of the loop body that keeps the app route of an occupied entry
\* (routes.entry(pathname).or_insert(*page_route)).
MergePageRouteKeepApp(routes, pathname, page_route) ==
    IF IndexOf(routes, pathname) # 0
    THEN routes
    ELSE Append(routes, <<pathname, page_route>>)

\* A variant of the loop body with the two match arms exchanged.
MergePageRouteSwapped(routes, pathname, page_route) ==
    IF IndexOf(routes, pathname) # 0
    THEN [routes EXCEPT ![IndexOf(routes, pathname)] = <<pathname, page_route>>]
    ELSE Append(routes, <<pathname, Conflict>>)

\* A variant of the loop body that removes the occupied entry and inserts the
\* Conflict marker afresh (shift_remove followed by insert).
MergePageRouteReinsert(routes, pathname, page_route) ==
    IF IndexOf(routes, pathname) # 0
    THEN Append(SelectSeq(routes, LAMBDA e : e[1] # pathname),
                <<pathname, Conflict>>)
    ELSE Append(routes, <<pathname, page_route>>)

\* The body of the for loop over the pages routes: the match on
\* routes.entry(pathname).
MergePageRoute(routes, pathname, page_route) ==
    IF IndexOf(routes, pathname) # 0
    THEN \* Entry::Occupied: *entry.get_mut() = Route::Conflict
         [routes EXCEPT ![IndexOf(routes, pathname)] = <<pathname, Conflict>>]
    ELSE \* Entry::Vacant: entry.insert(*page_route)
         Append(routes, <<pathname, page_route>>)

RECURSIVE MergePages(_, _)

\* A variant of the loop that leaves it at the first occupied entry.
RECURSIVE MergePagesBreak(_, _)
MergePagesBreak(routes, pages) ==
    IF pages = <<>> THEN routes
    ELSE IF IndexOf(routes, Head(pages)[1]) # 0
         THEN MergePageRoute(routes, Head(pages)[1], Head(pages)[2])
         ELSE MergePagesBreak(MergePageRoute(routes, Head(pages)[1], Head(pages)[2]),
                              Tail(pages))

\* The for loop over pages_project.routes().
MergePages(routes, pages) ==
    IF pages = <<>> THEN routes
    ELSE MergePages(MergePageRoute(routes, Head(pages)[1], Head(pages)[2]),
                    Tail(pages))

\* Project::entrypoints
entrypoints(app, pages) ==
    LET seeded == IF app.some THEN Extend(<<>>, app.value) ELSE <<>>
    IN  Ok([routes |-> MergePages(seeded, pages), middleware |-> None])

Entrypoints ==
    /\ entrypoints_out = None
    /\ entrypoints_out' = Some(entrypoints(app_routes, pages_routes))
    /\ UNCHANGED <<app_routes, pages_routes>>
    /\ UNCHANGED <<path_vars, project_vars, dyn_vars>>

(***************************************************************************)
(* Project::project_path                                                   *)
(***************************************************************************)
\* The characters path strings are built from; both platform separators
\* are among them.
Chars == {"/", "\\", "r", "s"}

Strings(n) == UNION {[1..k -> Chars] : k \in 0..n}

\* std::path::MAIN_SEPARATOR: "/" on Unix targets, "\" on Windows targets.
MainSeparators == {"/", "\\"}

\* str::starts_with
StartsWith(s, prefix) ==
    /\ Len(prefix) <= Len(s)
    /\ SubSeq(s, 1, Len(prefix)) = prefix

\* str::strip_prefix(&str)
strip_prefix(s, prefix) ==
    IF StartsWith(s, prefix)
    THEN Some(SubSeq(s, Len(prefix) + 1, Len(s)))
    ELSE None

\* str::strip_prefix(char)
strip_prefix_char(s, c) ==
    IF s # <<>> /\ s[1] = c THEN Some(Tail(s)) ELSE None

\* Option::unwrap_or
unwrap_or(opt, default) == IF opt.some THEN opt.value ELSE default

\* str::replace(char, &str) with a one-character replacement
replace(s, from, to) == [i \in 1..Len(s) |-> IF s[i] = from THEN to ELSE s[i]]

\* PROJECT_FILESYSTEM_NAME
PROJECT_FILESYSTEM_NAME == "project"

\* Project::project_root_path: the root of the project filesystem.
project_root_path == [fs |-> PROJECT_FILESYSTEM_NAME, path |-> <<>>]

\* FileSystemPath::join of a root path with a relative path.
join(root, rel) == [fs |-> root.fs, path |-> root.path \o rel]

\* The failure of Option::unwrap on None; the computation yields no path.
PathError == Err("PathError")

\* A variant that strips every leading separator (trim_start_matches).
RECURSIVE TrimStart(_, _)
TrimStart(s, c) == IF s # <<>> /\ s[1] = c THEN TrimStart(Tail(s), c) ELSE s

project_path_trim(this, sep) ==
    LET stripped == strip_prefix(this.project_path, this.root_path)
    IN  IF ~stripped.some THEN PathError
        ELSE Ok(join(project_root_path,
                     replace(TrimStart(stripped.value, sep), sep, "/")))

\* Project::project_path
project_path(this, sep) ==
    LET stripped == strip_prefix(this.project_path, this.root_path)
    IN  IF ~stripped.some
        THEN PathError      \* .unwrap() on None
        ELSE LET project_relative == stripped.value
             IN  Ok(join(project_root_path,
                         replace(unwrap_or(strip_prefix_char(project_relative, sep),
                                           project_relative),
                                 sep, "/")))

ProjectPath ==
    /\ project_path_out = None
    /\ project_path_out' = Some(project_path(paths.value, platform_sep))
    /\ UNCHANGED <<platform_sep, paths>>
    /\ UNCHANGED <<entry_vars, project_vars, dyn_vars>>

(***************************************************************************)
(* Project::new, the overlay filesystems and the layered chunking contexts *)
(***************************************************************************)
\* The raw next.config.js strings: one that parses and one that does not.
WellFormedConfig == "{}"
MalformedConfig  == "{"
RawConfigs       == {WellFormedConfig, MalformedConfig}

ProjectOptions ==
    [root_path : {<<"/", "r">>}, project_path : {<<"/", "r", "/", "s">>},
     next_config : RawConfigs, watch : BOOLEAN, memory_limit : {None}]

BROWSERSLIST_QUERY ==
    "last 1 Chrome versions, last 1 Firefox versions, last 1 Safari versions, last 1 Edge versions"

\* NextConfig::from_string: a task cell holding the parse of the raw string;
\* the call itself returns the cell, the parse runs when the cell is read.
from_string(raw) == [task |-> "NextConfig::from_string", arg |-> raw]

\* Reading a NextConfig::from_string cell: the parse, or its ConfigError.
ReadConfig(cell) ==
    IF cell.arg = WellFormedConfig
    THEN Ok([config |-> cell.arg])
    ELSE Err("ConfigError")

\* A variant of Project::new that reads the configuration cell and
\* propagates its error (NextConfig::from_string(..).await?).
new_eager(options) ==
    IF ReadConfig(from_string(options.next_config)).ok
    THEN Ok([root_path |-> options.root_path,
             project_path |-> options.project_path,
             watch |-> options.watch,
             next_config |-> from_string(options.next_config),
             browserslist_query |-> BROWSERSLIST_QUERY,
             mode |-> "Development"])
    ELSE ReadConfig(from_string(options.next_config))

\* Project::new
new(options) ==
    Ok([root_path |-> options.root_path,
        project_path |-> options.project_path,
        watch |-> options.watch,
        next_config |-> from_string(options.next_config),
        browserslist_query |-> BROWSERSLIST_QUERY,
        mode |-> "Development"])

\* The three overlay roots and the accessors that build them.
Overlays    == {"project", "client", "node"}
FsAccessors == {"project_fs", "client_fs", "node_fs"}
LayerFns    == {"ssr_chunking_context", "ssr_data_chunking_context",
                "rsc_chunking_context"}
Accessors   == FsAccessors \cup LayerFns \cup {"next_config"}

\* DiskFileSystem::new / VirtualFileSystem::new
DiskFileSystem(name, root) == [kind |-> "disk", name |-> name, root |-> root]
VirtualFileSystem == [kind |-> "virtual"]

\* The outcome of an accessor body: its Result and the overlays on which it
\* called start_watching_with_invalidation_reason.
\* watch_ok is whether that call succeeds; its error leaves through `?`.

\* A variant of project_fs that starts the watcher whatever the flag says.
project_fs_always(this, watch_ok) ==
    [result |-> IF watch_ok
                THEN Ok(DiskFileSystem(PROJECT_FILESYSTEM_NAME, this.root_path))
                ELSE Err("start_watching"),
     watch  |-> {"project"}]

\* Project::project_fs
project_fs(this, watch_ok) ==
    LET disk_fs == DiskFileSystem(PROJECT_FILESYSTEM_NAME, this.root_path)
    IN  IF this.watch
        THEN [result |-> IF watch_ok THEN Ok(disk_fs) ELSE Err("start_watching"),
              watch  |-> {"project"}]
        ELSE [result |-> Ok(disk_fs), watch |-> {}]

\* Project::client_fs
client_fs(this, watch_ok) ==
    [result |-> Ok(VirtualFileSystem), watch |-> {}]

\* Project::node_fs
node_fs(this, watch_ok) ==
    LET disk_fs == DiskFileSystem("node", this.project_path)
    IN  [result |-> IF watch_ok THEN Ok(disk_fs) ELSE Err("start_watching"),
         watch  |-> {"node"}]

FsBody(name, this, watch_ok) ==
    CASE name = "project_fs" -> project_fs(this, watch_ok)
      [] name = "client_fs"  -> client_fs(this, watch_ok)
      [] name = "node_fs"    -> node_fs(this, watch_ok)

\* The concrete kinds a Vc<Box<dyn ChunkingContext>> may resolve to.
ContextKinds == {"BuildChunkingContext", "DevChunkingContext"}

\* Project::server_chunking_context: the base context, built over
\* project_path() (project_fs), node_root() (node_fs) and client_fs().root();
\* it resolves only if the filesystems it is built over resolved.
server_chunking_context(fs) ==
    IF \A n \in FsAccessors : fs[n].value.ok
    THEN Ok([kind |-> "BuildChunkingContext", layer |-> None,
             project_path |-> fs["project_fs"].value.value,
             node_root |-> fs["node_fs"].value.value,
             client_root |-> fs["client_fs"].value.value])
    ELSE Err("filesystem")

\* ChunkingContext::with_layer, behind the trait object: the same context
\* tagged with the layer, of the concrete kind the implementation returns.
with_layer(base, layer, kind) == [base EXCEPT !.kind = kind, !.layer = Some(layer)]

\* Vc::try_resolve_downcast_type::<BuildChunkingContext>
try_resolve_downcast_type(ctx) ==
    IF ctx.kind = "BuildChunkingContext" THEN Some(ctx) ELSE None

\* anyhow::Context::context on an Option
context(opt, msg) == IF opt.some THEN Ok(opt.value) ELSE Err(msg)

LayerTypeError == "with_layer should not change the type of the chunking context"

\* A variant of the shared body that upcasts the layered context without
\* the downcast check.
layered_chunking_context_unchecked(base, layer, kind) ==
    IF ~base.ok THEN base
    ELSE Ok(with_layer(base.value, layer, kind))

\* The shared body of the three layered accessors.
layered_chunking_context(base, layer, kind) ==
    IF ~base.ok THEN base
    ELSE context(try_resolve_downcast_type(with_layer(base.value, layer, kind)),
                 LayerTypeError)

\* Project::ssr_chunking_context
ssr_chunking_context(base, kind) == layered_chunking_context(base, "ssr", kind)

\* Project::ssr_data_chunking_context
ssr_data_chunking_context(base, kind) ==
    layered_chunking_context(base, "ssr data", kind)

\* Project::rsc_chunking_context
rsc_chunking_context(base, kind) == layered_chunking_context(base, "rsc", kind)

LayerBody(fn, base, kind) ==
    CASE fn = "ssr_chunking_context"      -> ssr_chunking_context(base, kind)
      [] fn = "ssr_data_chunking_context" -> ssr_data_chunking_context(base, kind)
      [] fn = "rsc_chunking_context"      -> rsc_chunking_context(base, kind)

TotalEvals ==
    evals["project_fs"] + evals["client_fs"] + evals["node_fs"]
    + evals["ssr_chunking_context"] + evals["ssr_data_chunking_context"]
    + evals["rsc_chunking_context"] + evals["next_config"]

\* Project::new(options)
New(options) ==
    /\ new_out = None
    /\ new_out' = Some([options |-> options, result |-> new(options)])
    /\ project' = IF new(options).ok THEN Some(new(options).value) ELSE None
    /\ UNCHANGED <<watching, cells, evals, last_call>>
    /\ UNCHANGED <<entry_vars, path_vars, dyn_vars>>

\* The engine evaluates the body of filesystem accessor `name` (its cell is
\* empty) and memoizes the Result.
EvalFs(name, watch_ok) ==
    /\ project.some
    /\ TotalEvals < MaxEvals
    /\ cells[name] = None
    /\ LET out == FsBody(name, project.value, watch_ok)
       IN  /\ cells' = [cells EXCEPT ![name] = Some(out.result)]
           /\ watching' = [o \in Overlays |->
                             watching[o] + IF o \in out.watch THEN 1 ELSE 0]
           /\ last_call' = Some([fn |-> name, result |-> out.result])
    /\ evals' = [evals EXCEPT ![name] = @ + 1]
    /\ UNCHANGED <<project, new_out>>
    /\ UNCHANGED <<entry_vars, path_vars, dyn_vars>>

\* The engine drops a memoized filesystem cell (an invalidation); the next
\* read evaluates the accessor again.
Invalidate(name) ==
    /\ cells[name].some
    /\ TotalEvals < MaxEvals
    /\ cells' = [cells EXCEPT ![name] = None]
    /\ UNCHANGED <<project, new_out, watching, evals, last_call>>
    /\ UNCHANGED <<entry_vars, path_vars, dyn_vars>>

\* Project::next_config, and a read of the cell it returns.
NextConfig ==
    /\ project.some
    /\ TotalEvals < MaxEvals
    /\ last_call' = Some([fn |-> "next_config",
                          result |-> ReadConfig(project.value.next_config)])
    /\ evals' = [evals EXCEPT !["next_config"] = @ + 1]
    /\ UNCHANGED <<project, new_out, watching, cells>>
    /\ UNCHANGED <<entry_vars, path_vars, dyn_vars>>

\* One of the layered accessors: server_chunking_context() reads the three
\* filesystem accessors, evaluating those whose cell is empty, and the
\* accessor derives the layer from it.
EvalLayer(fn, kind, project_ok, node_ok) ==
    /\ project.some
    /\ TotalEvals < MaxEvals
    /\ LET ok(n)   == IF n = "project_fs" THEN project_ok ELSE node_ok
           body(n) == FsBody(n, project.value, ok(n))
           fresh   == {n \in FsAccessors : cells[n] = None}
           after   == [n \in FsAccessors |->
                         IF n \in fresh THEN Some(body(n).result) ELSE cells[n]]
           base    == server_chunking_context(after)
       IN  /\ cells' = after
           /\ watching' = [o \in Overlays |->
                 watching[o] + Cardinality({n \in fresh : o \in body(n).watch})]
           /\ evals' = [a \in Accessors |->
                 evals[a] + IF a \in fresh \/ a = fn THEN 1 ELSE 0]
           /\ last_call' = Some([fn |-> fn, base |-> base, kind |-> kind,
                                 result |-> LayerBody(fn, base, kind)])
    /\ UNCHANGED <<project, new_out>>
    /\ UNCHANGED <<entry_vars, path_vars, dyn_vars>>

(***************************************************************************)
(* NextDynamicEntryModule                                                  *)
(***************************************************************************)
\* A Vc<Box<dyn Module>>: an identity, and whether the module also
\* implements ChunkableModule.
Modules  == [id : 1..NumModules, chunkable : BOOLEAN]
Contexts == 1..NumContexts

ChunkabilityError == "dynamic client asset must be chunkable"
AssetError        == "NextDynamicEntryModule has no content"

\* NextDynamicEntryModule::new
dynamic_new(client_entry_module) == [client_entry_module |-> client_entry_module]

\* Vc::try_resolve_sidecast::<Box<dyn ChunkableModule>>
try_resolve_sidecast(module) == IF module.chunkable THEN Some(module) ELSE None

\* ChunkableModule::as_root_chunk
as_root_chunk(module, chunking_context) ==
    [root |-> module.id, context |-> chunking_context]

\* ChunkingContext::chunk_group: the output assets of the group rooted at
\* entry_chunk, the asset of the entry chunk among them.
chunk_group(chunking_context, entry_chunk) ==
    {[asset |-> entry_chunk, context |-> chunking_context]}

\* A variant of client_chunks that answers a module that is not chunkable
\* with an empty asset set.
client_chunks_lenient(this, client_chunking_context) ==
    LET client_entry_module == try_resolve_sidecast(this.client_entry_module)
    IN  IF ~client_entry_module.some
        THEN Ok({})
        ELSE Ok(chunk_group(client_chunking_context,
                            as_root_chunk(client_entry_module.value,
                                          client_chunking_context)))

\* NextDynamicEntryModule::client_chunks
client_chunks(this, client_chunking_context) ==
    LET client_entry_module == try_resolve_sidecast(this.client_entry_module)
    IN  IF ~client_entry_module.some
        THEN Err(ChunkabilityError)     \* bail!
        ELSE Ok(chunk_group(client_chunking_context,
                            as_root_chunk(client_entry_module.value,
                                          client_chunking_context)))

\* dynamic_modifier
dynamic_modifier == "dynamic"

\* Module::ident
ident(this) ==
    [ident |-> this.client_entry_module.id, modifiers |-> <<dynamic_modifier>>]

\* A variant of content that hands out the content of a chunkable wrapped
\* module.
content_of_wrapped(this) ==
    IF this.client_entry_module.chunkable
    THEN Ok([content_of |-> this.client_entry_module.id])
    ELSE Err(AssetError)

\* Asset::content
content(this) == Err(AssetError)

\* Asset::references: AssetReferences::empty()
references(this) == {}

\* NextDynamicEntryModule::new(module)
DynamicNew(module) ==
    /\ dynamic_new(module) \notin markers
    /\ markers' = markers \cup {dynamic_new(module)}
    /\ UNCHANGED dyn_calls
    /\ UNCHANGED <<entry_vars, path_vars, project_vars>>

Logged(fn, marker, ctx, result) ==
    /\ marker \in markers
    /\ Len(dyn_calls) < MaxDynCalls
    /\ dyn_calls' = Append(dyn_calls,
           [fn |-> fn, marker |-> marker, context |-> ctx, result |-> result])
    /\ UNCHANGED markers
    /\ UNCHANGED <<entry_vars, path_vars, project_vars>>

ClientChunks(marker, ctx) ==
    Logged("client_chunks", marker, Some(ctx), client_chunks(marker, ctx))

Ident(marker) == Logged("ident", marker, None, ident(marker))

Content(marker) == Logged("content", marker, None, content(marker))

References(marker) == Logged("references", marker, None, references(marker))

(***************************************************************************)
(* The specifications.                                                     *)
(***************************************************************************)
InitEntry ==
    /\ app_routes \in {None} \cup {Some(m) : m \in IndexMaps(AppRouteKinds)}
    /\ pages_routes \in IndexMaps(PagesRouteKinds)
    /\ entrypoints_out = None
    /\ platform_sep = "/" /\ paths = None /\ project_path_out = None
    /\ project = None /\ new_out = None /\ watching = None /\ cells = None
    /\ evals = None /\ last_call = None
    /\ markers = {} /\ dyn_calls = <<>>

NextEntry == Entrypoints

SpecEntry == InitEntry /\ [][NextEntry]_vars

InitPath ==
    /\ platform_sep \in MainSeparators
    /\ paths \in {Some([root_path |-> r, project_path |-> q]) :
                    r \in Strings(MaxRootLen), q \in Strings(MaxProjectLen)}
    /\ project_path_out = None
    /\ app_routes = None /\ pages_routes = <<>> /\ entrypoints_out = None
    /\ project = None /\ new_out = None /\ watching = None /\ cells = None
    /\ evals = None /\ last_call = None
    /\ markers = {} /\ dyn_calls = <<>>

NextPath == ProjectPath

SpecPath == InitPath /\ [][NextPath]_vars

InitProject ==
    /\ project = None
    /\ new_out = None
    /\ watching = [o \in Overlays |-> 0]
    /\ cells = [n \in FsAccessors |-> None]
    /\ evals = [a \in Accessors |-> 0]
    /\ last_call = None
    /\ app_routes = None /\ pages_routes = <<>> /\ entrypoints_out = None
    /\ platform_sep = "/" /\ paths = None /\ project_path_out = None
    /\ markers = {} /\ dyn_calls = <<>>

NextProject ==
    \/ \E o \in ProjectOptions : New(o)
    \/ \E n \in FsAccessors, ok \in BOOLEAN : EvalFs(n, ok)
    \/ \E n \in FsAccessors : Invalidate(n)
    \/ NextConfig
    \/ \E fn \in LayerFns, kind \in ContextKinds, pok, nok \in BOOLEAN :
           EvalLayer(fn, kind, pok, nok)

SpecProject == InitProject /\ [][NextProject]_vars

InitDyn ==
    /\ markers = {}
    /\ dyn_calls = <<>>
    /\ app_routes = None /\ pages_routes = <<>> /\ entrypoints_out = None
    /\ platform_sep = "/" /\ paths = None /\ project_path_out = None
    /\ project = None /\ new_out = None /\ watching = None /\ cells = None
    /\ evals = None /\ last_call = None

NextDyn ==
    \/ \E m \in Modules : DynamicNew(m)
    \/ \E mk \in markers, ctx \in Contexts : ClientChunks(mk, ctx)
    \/ \E mk \in markers : Ident(mk)
    \/ \E mk \in markers : Content(mk)
    \/ \E mk \in markers : References(mk)

SpecDyn == InitDyn /\ [][NextDyn]_vars

(***************************************************************************)
(* Properties of Project::entrypoints (checked under SpecEntry).           *)
(***************************************************************************)
\* The app source as a map: empty when no app directory was found.
AppMap == IF app_routes.some THEN app_routes.value ELSE <<>>

EntryDone == entrypoints_out.some
OutRoutes == entrypoints_out.value.value.routes

Pairs(m)  == {m[i] : i \in 1..Len(m)}
KeySeq(m) == [i \in 1..Len(m) |-> m[i][1]]
Shared    == Keys(AppMap) \cap Keys(pages_routes)

\* C1: the result of entrypoints maps every pathname of either source to
\* exactly one Route; that Route is Conflict iff both sources registered the
\* pathname, and otherwise it is the route of the one source that did.
C1_MergeConflictIff ==
    EntryDone =>
        /\ entrypoints_out.value.ok
        /\ IsIndexMap(OutRoutes)
        /\ Keys(OutRoutes) = Keys(AppMap) \cup Keys(pages_routes)
        /\ \A k \in Keys(OutRoutes) :
              /\ Get(OutRoutes, k) = Conflict <=> k \in Shared
              /\ k \in Keys(AppMap) \ Keys(pages_routes)
                    => Get(OutRoutes, k) = Get(AppMap, k)
              /\ k \in Keys(pages_routes) \ Keys(AppMap)
                    => Get(OutRoutes, k) = Get(pages_routes, k)
              /\ k \in Shared
                    => Get(OutRoutes, k) \notin {Get(AppMap, k), Get(pages_routes, k)}

\* A merge with a shared pathname, an app-only one and a pages-only one.
C1_Witness ==
    /\ EntryDone
    /\ Shared # {}
    /\ Keys(AppMap) \ Keys(pages_routes) # {}
    /\ Keys(pages_routes) \ Keys(AppMap) # {}

\* C2: for disjoint pathname sets the result is the union of the two maps
\* and holds no Conflict; with an empty pages source it is the app map, with
\* an absent or empty app source it is the pages map.
C2_DisjointUnion ==
    EntryDone =>
        /\ Shared = {} =>
              /\ Pairs(OutRoutes) = Pairs(AppMap) \cup Pairs(pages_routes)
              /\ Len(OutRoutes) = Len(AppMap) + Len(pages_routes)
              /\ \A i \in 1..Len(OutRoutes) : OutRoutes[i][2] # Conflict
        /\ pages_routes = <<>> => OutRoutes = AppMap
        /\ AppMap = <<>> => OutRoutes = pages_routes

\* A merge of two non-empty sources with disjoint pathnames.
C2_Witness ==
    /\ EntryDone
    /\ Shared = {}
    /\ AppMap # <<>>
    /\ pages_routes # <<>>

\* Every enumeration order of the pairs of m.
Orders(m) == {[i \in 1..Len(m) |-> m[p[i]]] : p \in Permutations(1..Len(m))}

\* C3: whatever order the pages source enumerates its pairs in, the result
\* has the same number of entries and the same Route for every pathname not
\* shared with the app source.
C3_PagesOrderIndependent ==
    EntryDone =>
        \A q \in Orders(pages_routes) :
            LET other == entrypoints(app_routes, q).value.routes
            IN  /\ Len(other) = Len(OutRoutes)
                /\ Keys(other) = Keys(OutRoutes)
                /\ \A k \in Keys(OutRoutes) \ Shared :
                      Get(other, k) = Get(OutRoutes, k)

\* A merge whose pages source has several orders, a shared pathname and a
\* pathname of its own.
C3_Witness ==
    /\ EntryDone
    /\ Len(pages_routes) >= 2
    /\ Shared # {}
    /\ Keys(pages_routes) \ Keys(AppMap) # {}

\* C10: the result lists the app pathnames first, in the app source's order,
\* then the pathnames only the pages source registered, in the pages source's
\* order; a shared pathname stays at its app position.
C10_InsertionOrder ==
    EntryDone =>
        KeySeq(OutRoutes) =
            KeySeq(AppMap) \o
            SelectSeq(KeySeq(pages_routes), LAMBDA k : k \notin Keys(AppMap))

\* A merge where a shared pathname is followed by another app pathname and
\* the pages source lists a pathname of its own before the shared one.
C10_Witness ==
    /\ EntryDone
    /\ Len(AppMap) >= 2
    /\ AppMap[1][1] \in Shared
    /\ Len(pages_routes) >= 2
    /\ pages_routes[1][1] \notin Keys(AppMap)
    /\ pages_routes[2][1] = AppMap[1][1]
    /\ OutRoutes[1] = <<AppMap[1][1], Conflict>>

(***************************************************************************)
(* Properties of Project::project_path (checked under SpecPath).           *)
(***************************************************************************)
PathDone == project_path_out.some
Root     == paths.value.root_path
Proj     == paths.value.project_path

\* The remainder of project_path after the root_path prefix.
Remainder == SubSeq(Proj, Len(Root) + 1, Len(Proj))

\* The remainder without one leading platform separator.
Unrooted ==
    IF Remainder # <<>> /\ Remainder[1] = platform_sep
    THEN SubSeq(Remainder, 2, Len(Remainder))
    ELSE Remainder

\* C4: when project_path begins with root_path, project_path returns the
\* project filesystem root joined with the remainder, less one leading
\* separator, every platform separator replaced by "/"; when it does not, the
\* computation fails with the PathError and returns no path.
C4_ProjectRelativePath ==
    PathDone =>
        LET out == project_path_out.value
        IN  IF StartsWith(Proj, Root)
            THEN /\ out.ok
                 /\ out.value.fs = PROJECT_FILESYSTEM_NAME
                 /\ Len(out.value.path) = Len(Unrooted)
                 /\ \A i \in 1..Len(Unrooted) :
                       out.value.path[i] =
                           IF Unrooted[i] = platform_sep THEN "/" ELSE Unrooted[i]
                 /\ (Root = <<"/", "r">> /\ Proj = <<"/", "r", "/", "s">>
                     /\ platform_sep = "/") => out.value.path = <<"s">>
                 /\ Proj = Root => out.value.path = <<>>
            ELSE out = PathError

\* A Windows-style project_path under its root: one leading separator to
\* strip, a second one right behind it and a third further on to replace.
C4_Witness ==
    /\ PathDone
    /\ platform_sep = "\\"
    /\ Root = <<"r">>
    /\ Proj = <<"r", "\\", "\\", "s">>
    /\ project_path_out.value = Ok([fs |-> "project", path |-> <<"/", "s">>])

(***************************************************************************)
(* Properties of Project::new, the overlay filesystems and the layered     *)
(* chunking contexts (checked under SpecProject).                          *)
(***************************************************************************)
Constructed == new_out.some
NoFilesystemUse ==
    /\ \A o \in Overlays : watching[o] = 0
    /\ \A n \in FsAccessors : cells[n] = None

\* C5 as stated: Project::new fails for a raw configuration that does not
\* parse and returns no Project for it; for one that parses it returns a
\* Project with the default browserslist query and mode Development, without
\* filesystem access or watcher.
C5_NewFailsOnMalformedConfig ==
    Constructed =>
        /\ new_out.value.options.next_config = MalformedConfig
             => ~new_out.value.result.ok /\ project = None
        /\ new_out.value.options.next_config = WellFormedConfig
             => /\ new_out.value.result.ok
                /\ new_out.value.result.value.mode = "Development"
                /\ new_out.value.result.value.browserslist_query = BROWSERSLIST_QUERY
        /\ TotalEvals = 0 => NoFilesystemUse

\* C5 amended: Project::new returns a Project for every raw configuration,
\* parsing or not; the Project holds the unread NextConfig::from_string cell
\* of the raw string, the default browserslist query and mode Development;
\* construction touches no filesystem and starts no watcher.
C5_NewDefersConfigParse ==
    Constructed =>
        /\ new_out.value.result.ok
        /\ project = Some(new_out.value.result.value)
        /\ project.value.next_config = from_string(new_out.value.options.next_config)
        /\ project.value.mode = "Development"
        /\ project.value.browserslist_query = BROWSERSLIST_QUERY
        /\ project.value.watch = new_out.value.options.watch
        /\ TotalEvals = 0 => NoFilesystemUse

\* A Project built from a configuration that does not parse, whose
\* next_config cell was then read and gave the ConfigError.
C5_Witness ==
    /\ Constructed
    /\ new_out.value.options.next_config = MalformedConfig
    /\ project.some
    /\ last_call = Some([fn |-> "next_config", result |-> Err("ConfigError")])

\* C6: a watcher is started on the project overlay only if the Project was
\* built with watch = true, and then by every evaluation of project_fs; every
\* evaluation of node_fs starts one on the node overlay, whatever the flag;
\* none is ever started on the client overlay.
C6_WatchersPerOverlay ==
    Constructed /\ project.some =>
        /\ watching["project"] > 0 => project.value.watch
        /\ watching["project"] =
              IF project.value.watch THEN evals["project_fs"] ELSE 0
        /\ watching["node"] = evals["node_fs"]
        /\ watching["client"] = 0
        /\ cells["client_fs"].some => cells["client_fs"].value = Ok(VirtualFileSystem)

\* A Project built without watch on which all three filesystem accessors
\* were evaluated, node_fs twice.
C6_Witness ==
    /\ project.some
    /\ ~project.value.watch
    /\ evals["project_fs"] > 0
    /\ evals["client_fs"] > 0
    /\ evals["node_fs"] = 2
    /\ watching = [o \in Overlays |-> IF o = "node" THEN 2 ELSE 0]

\* The layer each accessor asks the base server context for.
LayerName(fn) ==
    CASE fn = "ssr_chunking_context"      -> "ssr"
      [] fn = "ssr_data_chunking_context" -> "ssr data"
      [] fn = "rsc_chunking_context"      -> "rsc"

\* C7: each layered accessor returns the base server context tagged with its
\* own layer name, and only when with_layer kept the kind
\* BuildChunkingContext; otherwise it fails and returns no context.
C7_LayeredContextKind ==
    (last_call.some /\ last_call.value.fn \in LayerFns) =>
        LET c == last_call.value
        IN  IF c.base.ok
            THEN /\ c.result.ok <=> c.kind = "BuildChunkingContext"
                 /\ c.result.ok =>
                       /\ c.result.value.kind = c.base.value.kind
                       /\ c.result.value =
                             [c.base.value EXCEPT !.layer = Some(LayerName(c.fn))]
                 /\ ~c.result.ok => c.result = Err(LayerTypeError)
            ELSE ~c.result.ok

\* ssr_data_chunking_context evaluated over a base whose with_layer gave a
\* context of another kind: the accessor failed.
C7_Witness ==
    /\ last_call.some
    /\ last_call.value.fn = "ssr_data_chunking_context"
    /\ last_call.value.base.ok
    /\ last_call.value.kind = "DevChunkingContext"
    /\ last_call.value.result = Err(LayerTypeError)

(***************************************************************************)
(* Properties of NextDynamicEntryModule (checked under SpecDyn).           *)
(***************************************************************************)
CallsOf(fn) == {i \in 1..Len(dyn_calls) : dyn_calls[i].fn = fn}

C9_NoContentNoReferences ==
    /\ \A i \in CallsOf("content") : dyn_calls[i].result = Err(AssetError)
    /\ \A i \in CallsOf("references") : dyn_calls[i].result = {}

\* content and references called on a marker of a chunkable module after
\* its client_chunks succeeded.
C9_Witness ==
    \E i \in CallsOf("client_chunks"), j \in CallsOf("content"),
       k \in CallsOf("references") :
        /\ i < j /\ i < k
        /\ dyn_calls[i].result.ok
        /\ dyn_calls[j].marker = dyn_calls[i].marker
        /\ dyn_calls[k].marker = dyn_calls[i].marker
        /\ ~dyn_calls[j].result.ok

====
